---- MODULE Spec2Model ----
(***************************************************************************)
(* Model of scripts/run_cv_kill_bill.py (YOLOv8n, closed vocabulary) and   *)
(* scripts/run_cv_kill_bill_open_vocab.py (OWL-ViT, open vocabulary).      *)
(*                                                                         *)
(* Both scripts define run_detection(): open the clip, compute a stride,   *)
(* walk the frames, run the detector on every stride-th frame, clamp and   *)
(* convert each box, collect one record per sampled frame, and finally     *)
(* json.dump the whole artifact to OUT_PATH.                               *)
(*                                                                         *)
(* Floats are fixed point: a pixel coordinate or a frame rate r is the     *)
(* integer r * Scale.  bbox_pct is kept in hundredths of a percent, time   *)
(* in milliseconds and confidence in thousandths, which is exactly what    *)
(* round(.., 2), round(.., 3) and round(.., 3) keep of them.  Python's     *)
(* round() is round-half-to-even.                                          *)
(***************************************************************************)
EXTENDS Integers, Sequences, FiniteSets, TLC

VARIABLES
    video,        \* the clip at VIDEO_PATH: reported fps, frame size, frames
    sample_fps,   \* the sample_fps argument (times Scale)
    fs,           \* the files at OUT_PATH ("out") and at the backup path
    backend,      \* which script's run_detection is running
    pc,           \* position inside run_detection
    error,        \* the exception that left run_detection, or "none"
    video_fps,    \* local video_fps (times Scale)
    stride,       \* local stride
    frame_idx,    \* local frame_idx
    frames,       \* local frames
    calls,        \* detector invocations made by the running call
    writes,       \* times the running call opened OUT_PATH for writing
    prior,        \* content of OUT_PATH when the running call started
    last          \* per script, the frames list of its last completed call

vars == <<video, sample_fps, fs, backend, pc, error, video_fps, stride,
          frame_idx, frames, calls, writes, prior, last>>

----------------------------------------------------------------------------
(* Bounds and program constants *)

MaxFrames == 3

MaxRateStep == 24

Scale == 100

FallbackFps == 30

ALLOWED_CLASSES == {"person"}

Backends == {"yolo", "owl"}

Max(a, b) == IF a >= b THEN a ELSE b

Min(a, b) == IF a <= b THEN a ELSE b

\* names of the YOLO result (COCO vocabulary, the two ids the clip shows)
Names == [c \in {0, 2} |-> IF c = 0 THEN "person" ELSE "car"]

\* default prompts of the open-vocabulary script
Prompts == <<"katana", "sword", "blade", "yellow jumpsuit", "yellow suit", "yellow outfit">>

----------------------------------------------------------------------------
(* Python builtins *)

\* round(a / b) for b > 0: nearest integer, ties to the even one
RoundHalfEven(a, b) ==
    LET q == a \div b
        r == a - q * b
    IN  IF 2 * r < b THEN q
        ELSE IF 2 * r > b THEN q + 1
        ELSE IF q % 2 = 0 THEN q ELSE q + 1

\* int(x): truncation toward zero of the float x / Scale
Trunc(x) == IF x >= 0 THEN x \div Scale ELSE -((-x) \div Scale)

----------------------------------------------------------------------------
(* Sampler *)

\* video_fps = cap.get(CAP_PROP_FPS) or 30.0
VideoFps(reported) == IF reported = 0 THEN FallbackFps * Scale ELSE reported

\* a plausible slip: int() without round()
Stride_trunc(vfps, sfps) == Max(1, vfps \div sfps)

\* stride = max(1, int(round(video_fps / sample_fps)))
Stride(vfps, sfps) == Max(1, RoundHalfEven(vfps, sfps))

\* a plausible slip: 1-based frame counter
Selected_offbyone(idx, s) == (idx + 1) % s = 0

\* the loop's test: frame_idx % stride != 0 skips the frame
Selected(idx, s) == idx % s = 0

\* round(frame_idx / video_fps, 3), in milliseconds
YoloTime(idx, vfps) == RoundHalfEven(1000 * Scale * idx, vfps)

OwlTime(idx, vfps) == RoundHalfEven(1000 * Scale * idx, vfps)

----------------------------------------------------------------------------
(* Detection normalizer *)

\* x1, y1, x2, y2 = b.xyxy[0].tolist() raises unless there are four values
WellFormed(raw) == Len(raw.box) = 4

\* a plausible slip: clamp to the dimension instead of dimension - 1
YoloClamp_dim(box, w, h) ==
    <<Max(0, box[1]), Max(0, box[2]),
      Min(w * Scale, box[3]), Min(h * Scale, box[4])>>

\* x1, y1 = max(0, x1), max(0, y1); x2, y2 = min(w - 1, x2), min(h - 1, y2)
YoloClamp(box, w, h) ==
    <<Max(0, box[1]), Max(0, box[2]),
      Min((w - 1) * Scale, box[3]), Min((h - 1) * Scale, box[4])>>

\* x1, y1 = max(0.0, x1), max(0.0, y1)
\* x2, y2 = min(float(w - 1), x2), min(float(h - 1), y2)
OwlClamp(box, w, h) ==
    <<Max(0 * Scale, box[1]), Max(0 * Scale, box[2]),
      Min((w - 1) * Scale, box[3]), Min((h - 1) * Scale, box[4])>>

\* [int(x1), int(y1), int(x2), int(y2)]
BboxPx(c) == <<Trunc(c[1]), Trunc(c[2]), Trunc(c[3]), Trunc(c[4])>>

\* [round(100 * x1 / w, 2), ...], in hundredths of a percent
BboxPct(c, w, h) ==
    <<RoundHalfEven(100 * 100 * c[1], Scale * w),
      RoundHalfEven(100 * 100 * c[2], Scale * h),
      RoundHalfEven(100 * 100 * c[3], Scale * w),
      RoundHalfEven(100 * 100 * c[4], Scale * h)>>

\* round(conf, 3) if conf is not None else None: conf is in ten-thousandths
\* and -1 stands for None
Round3(conf) == IF conf = -1 THEN -1 ELSE RoundHalfEven(conf, 10)

\* cls_id = int(b.cls[0].item()) if b.cls is not None else -1
\* label_name = names.get(cls_id, f"class-{cls_id}")  (r.names is a dict)
YoloLabel(raw) ==
    IF raw.cls \in DOMAIN Names THEN Names[raw.cls]
    ELSE "class-" \o ToString(raw.cls)

\* label = prompts[int(label_idx)]
OwlLabel(raw) == Prompts[raw.cls + 1]

\* a plausible slip: the test inverted
YoloKeep_inverted(label) == ALLOWED_CLASSES # {} /\ label \notin ALLOWED_CLASSES

\* if ALLOWED_CLASSES and label_name not in ALLOWED_CLASSES: continue
YoloKeep(label) == ~(ALLOWED_CLASSES # {} /\ label \notin ALLOWED_CLASSES)

\* the dict appended to boxes by the YOLO script
YoloDetection(raw, w, h) ==
    LET c == YoloClamp(raw.box, w, h)
    IN  [label |-> YoloLabel(raw), confidence |-> Round3(raw.conf),
         bbox_px |-> BboxPx(c), bbox_pct |-> BboxPct(c, w, h)]

\* the dict appended to boxes by the open-vocabulary script
OwlDetection(raw, w, h) ==
    LET c == OwlClamp(raw.box, w, h)
    IN  [label |-> OwlLabel(raw), confidence |-> Round3(raw.conf),
         bbox_px |-> BboxPx(c), bbox_pct |-> BboxPct(c, w, h)]

RECURSIVE YoloBoxes(_, _, _)
\* for b in r.boxes: ... boxes.append(...)
YoloBoxes(dets, w, h) ==
    IF dets = <<>> THEN <<>>
    ELSE LET raw == Head(dets)
         IN  IF YoloKeep(YoloLabel(raw))
             THEN <<YoloDetection(raw, w, h)>> \o YoloBoxes(Tail(dets), w, h)
             ELSE YoloBoxes(Tail(dets), w, h)

\* for box, score, label_idx in zip(...): ... boxes.append(...)
OwlBoxes(dets, w, h) == [i \in 1..Len(dets) |-> OwlDetection(dets[i], w, h)]

----------------------------------------------------------------------------
(* The clip and the two detectors *)

\* raw boxes (x1, y1, x2, y2) times Scale, as the detectors return them
BoxInside == <<1050, 2025, 30099, 40050>>

BoxSpilling == <<-500, 200, 65000, 40000>>

BoxRightOfFrame == <<70000, 200, 65000, 40000>>

BoxLeftOfFrame == <<-5000, -300, -1000, 40000>>

BoxPoint == <<12000, 12000, 12000, 12000>>

BoxMalformed == <<100, 200>>

Raw(c, k, b) == [cls |-> c, conf |-> k, box |-> b]

\* a detector outcome: it raises, or returns dets (empty also when the YOLO
\* result list is empty or r.boxes is None)
Result(r, d) == [raises |-> r, dets |-> d]

\* what model.predict / OwlViT post-processing return on one kind of frame
Scenes == {
    [yolo |-> Result(FALSE, <<>>), owl |-> Result(FALSE, <<>>)],
    [yolo |-> Result(FALSE, <<Raw(2, 9100, BoxInside), Raw(0, 8765, BoxSpilling),
                              Raw(99, 4050, BoxPoint), Raw(0, -1, BoxInside)>>),
     owl  |-> Result(FALSE, <<Raw(3, 2155, BoxSpilling), Raw(0, 3000, BoxPoint),
                              Raw(1, 2500, BoxInside)>>)],
    [yolo |-> Result(FALSE, <<Raw(0, 5000, BoxRightOfFrame), Raw(0, 6000, BoxLeftOfFrame)>>),
     owl  |-> Result(FALSE, <<Raw(5, 2000, BoxLeftOfFrame), Raw(2, 9999, BoxRightOfFrame)>>)],
    [yolo |-> Result(FALSE, <<Raw(0, 7000, BoxMalformed), Raw(0, 7100, BoxInside)>>),
     owl  |-> Result(FALSE, <<Raw(4, 4000, BoxInside)>>)],
    [yolo |-> Result(FALSE, <<Raw(0, 8000, BoxSpilling)>>),
     owl  |-> Result(TRUE, <<>>)],
    [yolo |-> Result(TRUE, <<>>),
     owl  |-> Result(FALSE, <<Raw(4, 4000, BoxInside), Raw(0, 2100, BoxMalformed)>>)] }

Dims == {<<640, 480>>, <<1, 1>>}

\* frame rates cap.get(CAP_PROP_FPS) reports, times Scale; 0 is "unavailable"
ReportedRates == {0, 750, 2997}

\* sample_fps arguments, times Scale
SampleRates == {300, 1500, 6000}

RECURSIVE SeqsUpTo(_, _)
SeqsUpTo(S, n) ==
    IF n = 0 THEN {<<>>}
    ELSE LET shorter == SeqsUpTo(S, n - 1)
         IN  shorter \cup {Append(q, e) : q \in shorter, e \in S}

Videos == { [fps |-> r, w |-> d[1], h |-> d[2], scenes |-> q] :
            r \in ReportedRates, d \in Dims, q \in SeqsUpTo(Scenes, MaxFrames) }

\* the detector of script b on frame number idx (0-based)
Detect(b, idx) == video.scenes[idx + 1][b]

----------------------------------------------------------------------------
(* Run assembler *)

NoFile == [exists |-> FALSE, data |-> <<>>]

\* the top-level keys json.dump writes before "frames"
Header(b) ==
    IF b = "yolo"
    THEN [kind |-> "header", sample_fps |-> sample_fps, video_fps |-> video_fps,
          model |-> "yolov8n.pt"]
    ELSE [kind |-> "header", sample_fps |-> sample_fps, video_fps |-> video_fps,
          model |-> "google/owlvit-base-patch32"]

\* the JSON document as the chunks json.dump emits, closing brace last
Document(b, recs) ==
    <<Header(b)>> \o [i \in 1..Len(recs) |-> [kind |-> "frame", rec |-> recs[i]]]
                 \o <<[kind |-> "end"]>>

Prefix(q, n) == SubSeq(q, 1, n)

Complete(f) == f.exists /\ f.data # <<>> /\ f.data[Len(f.data)].kind = "end"

----------------------------------------------------------------------------
(* run_detection *)

Init ==
    /\ video \in Videos
    /\ sample_fps \in SampleRates
    /\ fs = [out |-> NoFile, backup |-> NoFile]
    /\ backend = "yolo"
    /\ pc = "idle"
    /\ error = "none"
    /\ video_fps = 0
    /\ stride = 1
    /\ frame_idx = 0
    /\ frames = <<>>
    /\ calls = 0
    /\ writes = 0
    /\ prior = NoFile
    /\ last = [b \in Backends |-> [ok |-> FALSE, frames |-> <<>>]]

Idle == pc \in {"idle", "done", "failed"}

\* cap = cv2.VideoCapture(..); not cap.isOpened() raises RuntimeError
OpenFails ==
    /\ Idle
    /\ \E b \in Backends : backend' = b
    /\ pc' = "failed"
    /\ error' = "RuntimeError"
    /\ video_fps' = 0
    /\ stride' = 1
    /\ frame_idx' = 0
    /\ frames' = <<>>
    /\ calls' = 0
    /\ writes' = 0
    /\ prior' = fs.out
    /\ UNCHANGED <<video, sample_fps, fs, last>>

\* the clip opens: video_fps, stride, frames = [], frame_idx = 0
Open ==
    /\ Idle
    /\ \E b \in Backends : backend' = b
    /\ pc' = "loop"
    /\ error' = "none"
    /\ video_fps' = VideoFps(video.fps)
    /\ stride' = Stride(VideoFps(video.fps), sample_fps)
    /\ frame_idx' = 0
    /\ frames' = <<>>
    /\ calls' = 0
    /\ writes' = 0
    /\ prior' = fs.out
    /\ UNCHANGED <<video, sample_fps, fs, last>>

\* ok, frame = cap.read(); if not ok: break
EndOfStream ==
    /\ pc = "loop"
    /\ frame_idx >= Len(video.scenes)
    /\ pc' = "persist"
    /\ UNCHANGED <<video, sample_fps, fs, backend, error, video_fps, stride,
                   frame_idx, frames, calls, writes, prior, last>>

\* if frame_idx % stride != 0: frame_idx += 1; continue
SkipFrame ==
    /\ pc = "loop"
    /\ frame_idx < Len(video.scenes)
    /\ ~Selected(frame_idx, stride)
    /\ frame_idx' = frame_idx + 1
    /\ UNCHANGED <<video, sample_fps, fs, backend, pc, error, video_fps, stride,
                   frames, calls, writes, prior, last>>

\* a plausible slip: the exception is caught and the loop left with a break
DetectorRaises_caught ==
    /\ pc = "loop"
    /\ frame_idx < Len(video.scenes)
    /\ Selected(frame_idx, stride)
    /\ Detect(backend, frame_idx).raises
    /\ calls' = calls + 1
    /\ pc' = "persist"
    /\ error' = "DetectorFailure"
    /\ frame_idx' = Len(video.scenes)
    /\ UNCHANGED <<video, sample_fps, fs, backend, video_fps, stride,
                   frames, writes, prior, last>>

\* the detector raises on a sampled frame: the exception leaves run_detection
DetectorRaises ==
    /\ pc = "loop"
    /\ frame_idx < Len(video.scenes)
    /\ Selected(frame_idx, stride)
    /\ Detect(backend, frame_idx).raises
    /\ calls' = calls + 1
    /\ pc' = "failed"
    /\ error' = "DetectorFailure"
    /\ UNCHANGED <<video, sample_fps, fs, backend, video_fps, stride,
                   frame_idx, frames, writes, prior, last>>

\* unpacking a box that has not four values raises ValueError inside the loop
\* over the detections; nothing catches it
MalformedRaises ==
    /\ pc = "loop"
    /\ frame_idx < Len(video.scenes)
    /\ Selected(frame_idx, stride)
    /\ ~Detect(backend, frame_idx).raises
    /\ \E i \in 1..Len(Detect(backend, frame_idx).dets) :
           ~WellFormed(Detect(backend, frame_idx).dets[i])
    /\ calls' = calls + 1
    /\ pc' = "failed"
    /\ error' = "ValueError"
    /\ UNCHANGED <<video, sample_fps, fs, backend, video_fps, stride,
                   frame_idx, frames, writes, prior, last>>

\* the record frames.append() adds for the sampled frame frame_idx
FrameRecord(b, idx, w, h) ==
    IF b = "yolo"
    THEN [time |-> YoloTime(idx, video_fps), frame_index |-> idx,
          boxes |-> YoloBoxes(Detect(b, idx).dets, w, h)]
    ELSE [time |-> OwlTime(idx, video_fps), frame_index |-> idx,
          boxes |-> OwlBoxes(Detect(b, idx).dets, w, h)]

\* a sampled frame: detect, normalize every detection, append, frame_idx += 1
ProcessFrame ==
    /\ pc = "loop"
    /\ frame_idx < Len(video.scenes)
    /\ Selected(frame_idx, stride)
    /\ ~Detect(backend, frame_idx).raises
    /\ \A i \in 1..Len(Detect(backend, frame_idx).dets) :
           WellFormed(Detect(backend, frame_idx).dets[i])
    /\ calls' = calls + 1
    /\ frames' = Append(frames, FrameRecord(backend, frame_idx, video.w, video.h))
    /\ frame_idx' = frame_idx + 1
    /\ UNCHANGED <<video, sample_fps, fs, backend, pc, error, video_fps, stride,
                   writes, prior, last>>

\* OUT_PATH.parent.mkdir(..); OUT_PATH.open("w") truncates the destination
PersistOpen ==
    /\ pc = "persist"
    /\ fs' = [fs EXCEPT !.out = [exists |-> TRUE, data |-> <<>>]]
    /\ writes' = writes + 1
    /\ pc' = "dump"
    /\ UNCHANGED <<video, sample_fps, backend, error, video_fps, stride,
                   frame_idx, frames, calls, prior, last>>

\* json.dump(.., f): the next chunk of the document reaches the file
PersistWrite ==
    /\ pc = "dump"
    /\ Len(fs.out.data) < Len(Document(backend, frames))
    /\ fs' = [fs EXCEPT !.out.data =
                  Prefix(Document(backend, frames), Len(fs.out.data) + 1)]
    /\ UNCHANGED <<video, sample_fps, backend, pc, error, video_fps, stride,
                   frame_idx, frames, calls, writes, prior, last>>

\* the with block closes the file; return OUT_PATH
Return ==
    /\ pc = "dump"
    /\ fs.out.data = Document(backend, frames)
    /\ pc' = "done"
    /\ last' = [last EXCEPT ![backend] = [ok |-> TRUE, frames |-> frames]]
    /\ UNCHANGED <<video, sample_fps, fs, backend, error, video_fps, stride,
                   frame_idx, frames, calls, writes, prior>>

Next ==
    \/ OpenFails
    \/ Open
    \/ EndOfStream
    \/ SkipFrame
    \/ DetectorRaises
    \/ MalformedRaises
    \/ ProcessFrame
    \/ PersistOpen
    \/ PersistWrite
    \/ Return

Spec == Init /\ [][Next]_vars

----------------------------------------------------------------------------
(* The sampler over a fine grid of frame rates and short clips *)

FineRates == {25 * k : k \in 0..MaxRateStep}

ShortScenes == {sc \in Scenes : sc.yolo.dets = <<>>}

InitStride ==
    /\ video \in { [fps |-> r, w |-> 640, h |-> 480, scenes |-> q] :
                   r \in FineRates, q \in SeqsUpTo(ShortScenes, 2) }
    /\ sample_fps \in FineRates \ {0}
    /\ fs = [out |-> NoFile, backup |-> NoFile]
    /\ backend = "yolo"
    /\ pc = "idle"
    /\ error = "none"
    /\ video_fps = 0
    /\ stride = 1
    /\ frame_idx = 0
    /\ frames = <<>>
    /\ calls = 0
    /\ writes = 0
    /\ prior = NoFile
    /\ last = [b \in Backends |-> [ok |-> FALSE, frames |-> <<>>]]

SpecStride == InitStride /\ [][Next]_vars

----------------------------------------------------------------------------
(* Properties *)

NumFrames == Len(video.scenes)

Abs(x) == IF x >= 0 THEN x ELSE -x

\* every detection dict held by the running call's frames list
Emitted ==
    UNION { { frames[k].boxes[j] : j \in 1..Len(frames[k].boxes) } :
            k \in 1..Len(frames) }

\* the raw detections of a result that pass the script's label policy
KeptRaw(b, dets) ==
    IF b = "yolo"
    THEN SelectSeq(dets, LAMBDA r : YoloLabel(r) \in ALLOWED_CLASSES)
    ELSE dets

RawLabel(b, raw) == IF b = "yolo" THEN YoloLabel(raw) ELSE OwlLabel(raw)

\* C1: every emitted bbox_px is ordered and inside the frame:
\* 0 <= x1 <= x2 <= w-1 and 0 <= y1 <= y2 <= h-1.
C1_BboxPxInFrame ==
    \A d \in Emitted :
        /\ 0 <= d.bbox_px[1] /\ d.bbox_px[1] <= d.bbox_px[3]
        /\ d.bbox_px[3] <= video.w - 1
        /\ 0 <= d.bbox_px[2] /\ d.bbox_px[2] <= d.bbox_px[4]
        /\ d.bbox_px[4] <= video.h - 1

\* C2: once the stream is exhausted, frames holds exactly one record for each
\* frame index that is a multiple of the stride, in ascending order, whatever
\* the detector returned on the frames.
C2_FramesAreStrideMultiples ==
    pc \in {"persist", "dump", "done"} =>
        /\ \A i \in 0..(NumFrames - 1) :
               (i % stride = 0) <=>
                   (\E k \in 1..Len(frames) : frames[k].frame_index = i)
        /\ \A k \in 1..Len(frames) : frames[k].frame_index \in 0..(NumFrames - 1)
        /\ \A k \in 1..(Len(frames) - 1) :
               frames[k].frame_index < frames[k + 1].frame_index

C2_Witness ==
    /\ pc = "done"
    /\ NumFrames = 3
    /\ stride = 2
    /\ Len(frames) = 2
    /\ frames[1].boxes = <<>>
    /\ frames[2].boxes # <<>>
    /\ frames[2].frame_index = 2

\* C3: the destination is opened for writing at most once per call and only
\* after the stream is exhausted; a call that raised (video not opened,
\* detector failure) made no write and left the destination as it was, and an
\* open failure happens before any frame or detector call; a completed call
\* made exactly one write, holding every accumulated record.
C3_WrittenOnceAtEnd ==
    /\ writes <= 1
    /\ (writes > 0 => frame_idx >= NumFrames)
    /\ (error # "none" => writes = 0 /\ fs.out = prior)
    /\ (error = "RuntimeError" => calls = 0 /\ frame_idx = 0 /\ frames = <<>>)
    /\ (pc = "done" =>
           /\ writes = 1
           /\ Complete(fs.out)
           /\ Len(fs.out.data) = Len(frames) + 2
           /\ \A k \in 1..Len(frames) : fs.out.data[k + 1].rec = frames[k])

C3_Witness ==
    /\ pc = "failed"
    /\ error = "DetectorFailure"
    /\ frames # <<>>
    /\ Complete(prior)
    /\ Len(prior.data) = 5

\* C4: whatever a reader finds at the destination at any moment is a complete
\* document (or no file at all, before the first call wrote one).
C4_ReadersSeeCompleteDocument == fs.out.exists => Complete(fs.out)

\* C5: a malformed box never aborts the call: no ValueError leaves
\* run_detection, and a completed call has a record for every sampled frame
\* on which the detector did not raise.
C5_MalformedDetectionSkipped ==
    /\ error # "ValueError"
    /\ (pc = "done" =>
           \A i \in 0..(NumFrames - 1) :
               (i % stride = 0) =>
                   (\E k \in 1..Len(frames) : frames[k].frame_index = i))

\* C6: the boxes of every record are, in order, the raw detections of that
\* frame whose resolved label is allowed; the open-vocabulary script emits
\* all of them, zero-area boxes included.
C6_OnlyLabelPolicyFilters ==
    \A k \in 1..Len(frames) :
        LET kept == KeptRaw(backend, Detect(backend, frames[k].frame_index).dets)
            out  == frames[k].boxes
        IN  /\ Len(out) = Len(kept)
            /\ \A j \in 1..Len(out) :
                   /\ out[j].label = RawLabel(backend, kept[j])
                   /\ out[j].confidence = Round3(kept[j].conf)
            /\ (backend = "yolo" => \A j \in 1..Len(out) : out[j].label = "person")
            /\ (backend = "owl" =>
                   Len(out) = Len(Detect(backend, frames[k].frame_index).dets))

C6_Witness ==
    /\ backend = "owl"
    /\ \E k \in 1..Len(frames) :
           /\ Len(frames[k].boxes) = 3
           /\ \E j \in 1..3 : /\ frames[k].boxes[j].bbox_px[1] = frames[k].boxes[j].bbox_px[3]
                              /\ frames[k].boxes[j].bbox_px[2] = frames[k].boxes[j].bbox_px[4]
    /\ last["yolo"].ok
    /\ \E k \in 1..Len(last["yolo"].frames) :
           /\ Len(Detect("yolo", last["yolo"].frames[k].frame_index).dets) = 4
           /\ Len(last["yolo"].frames[k].boxes) = 2

\* C7: video_fps is the reported rate, or 30.0 when that is zero; the stride
\* is an integer >= 1, a nearest integer to video_fps / sample_fps unless that
\* is below 1, equal to 1 when sample_fps >= video_fps, and 10 for 30 and 3.
C7_StrideIsRoundedRatio ==
    pc \in {"loop", "persist", "dump", "done"} =>
        /\ video_fps = (IF video.fps = 0 THEN 30 * Scale ELSE video.fps)
        /\ stride \in Nat /\ stride >= 1
        /\ (sample_fps >= video_fps => stride = 1)
        /\ (2 * video_fps >= sample_fps =>
               2 * Abs(stride * sample_fps - video_fps) <= sample_fps)
        /\ (2 * video_fps < sample_fps => stride = 1)
        /\ (video_fps = 30 * Scale /\ sample_fps = 3 * Scale => stride = 10)

C7_Witness ==
    /\ pc = "done"
    /\ video.fps = 0
    /\ video_fps = 30 * Scale
    /\ sample_fps = 3 * Scale
    /\ stride = 10

\* C8: every component of every emitted bbox_pct lies in [0, 100].
C8_BboxPctInRange ==
    \A d \in Emitted : \A c \in 1..4 : d.bbox_pct[c] >= 0 /\ d.bbox_pct[c] <= 100 * 100

\* C9: when an open-vocabulary call completes over a destination that held a
\* YOLO artifact, that artifact is at the backup path.
C9_YoloArtifactBackedUp ==
    (/\ pc = "done" /\ backend = "owl"
     /\ Complete(prior) /\ prior.data[1].model = "yolov8n.pt")
        => fs.backup = prior

\* C10: completed calls of the two scripts on the same clip with the same
\* sample_fps hold records for the same frame indices with the same times,
\* and a raw box both detectors returned on a frame (and the YOLO label
\* policy kept) has the same bbox_px and bbox_pct in both.
C10_BackendsAgree ==
    (last["yolo"].ok /\ last["owl"].ok) =>
        LET fy == last["yolo"].frames
            fo == last["owl"].frames
        IN  /\ Len(fy) = Len(fo)
            /\ \A k \in 1..Len(fy) :
                   /\ fy[k].frame_index = fo[k].frame_index
                   /\ fy[k].time = fo[k].time
                   /\ LET ry == KeptRaw("yolo", Detect("yolo", fy[k].frame_index).dets)
                          ro == Detect("owl", fo[k].frame_index).dets
                      IN  \A i \in 1..Len(fy[k].boxes) : \A j \in 1..Len(fo[k].boxes) :
                              ry[i].box = ro[j].box =>
                                  /\ fy[k].boxes[i].bbox_px = fo[k].boxes[j].bbox_px
                                  /\ fy[k].boxes[i].bbox_pct = fo[k].boxes[j].bbox_pct

C10_Witness ==
    /\ last["yolo"].ok /\ last["owl"].ok
    /\ Len(last["yolo"].frames) >= 2
    /\ \E k \in 1..Len(last["yolo"].frames) :
           /\ k <= Len(last["owl"].frames)
           /\ \E i \in 1..Len(last["yolo"].frames[k].boxes) :
                  /\ last["yolo"].frames[k].boxes[i].bbox_px = <<0, 2, 639, 400>>
                  /\ \E j \in 1..Len(last["owl"].frames[k].boxes) :
                         last["owl"].frames[k].boxes[j].bbox_px = <<0, 2, 639, 400>>

====
